---------------------------- MODULE Spec2Model ----------------------------
(* A model of draw_info (src/draw_info.hpp, src/draw_info.cpp): the         *)
(* BufferModificationTracker, the transform bake operations on an IVPLike  *)
(* mesh, VertexBoneData::add_bone_data and the IVPColor constructors.      *)
(* Floating point values are modelled by integers (0 stands for 0.0f).     *)
EXTENDS Integers, Sequences, FiniteSets, TLC

VARIABLES
    tracker,    \* a stand-alone BufferModificationTracker
    calls,      \* the calls made on `tracker` since construction, oldest first
    mesh,       \* an IVPColor (an IVPLike mesh)
    hist,       \* the last operations invoked on `mesh` (at most two), oldest first
    nsets,      \* how many times the pending transform of `mesh` was assigned
    other,      \* a second IVPColor, the argument of copy_draw_data_from
    vbd,        \* a VertexBoneData
    adds,       \* the add_bone_data calls made on `vbd`, oldest first
    cout,       \* what add_bone_data wrote to std::cout
    ivp,        \* an IndexedVertexPositions handed to a constructor
    built,      \* the object the last constructor call built (or NoObject)
    ctor,       \* the last constructor call and its arguments (or NoCall)
    uid,        \* GlobalUIDGenerator: the next id it hands out
    live,       \* the mesh objects constructed so far, oldest first
    group,      \* a TransformedIVPTPGroup
    gen1,       \* the IDGenerator that issues group ids
    gen2,       \* the IDGenerator that issues member ids
    regen       \* the last regenerate_ids call: the generators before it (or NoCall)

trackerVars == <<tracker, calls>>
meshVars == <<mesh, hist, nsets, other>>
boneVars == <<vbd, adds, cout>>
ctorVars == <<ivp, built, ctor, uid, live>>
groupVars == <<group, gen1, gen2, regen>>
vars == <<tracker, calls, mesh, hist, nsets, other, vbd, adds, cout, ivp, built, ctor, uid, live,
          group, gen1, gen2, regen>>

-----------------------------------------------------------------------------
(* Bounds of the model.                                                    *)

MaxCalls == 6
MaxSets == 2
MaxAdds == 5

-----------------------------------------------------------------------------
(* Sequence helpers.                                                       *)

EndsWith(s, suffix) ==
    /\ Len(s) >= Len(suffix)
    /\ SubSeq(s, Len(s) - Len(suffix) + 1, Len(s)) = suffix

-----------------------------------------------------------------------------
(* BufferModificationTracker, src/draw_info.hpp:106-181.                   *)

\* The private members and their default initialisers.
NewTracker ==
    [has_data_in_buffer_ |-> FALSE,
     has_been_modified_since_last_buffered_ |-> FALSE]

has_data_in_buffer(t) == t.has_data_in_buffer_

just_modified_inverted_guard(t) ==
    IF ~has_data_in_buffer(t)
        THEN [t EXCEPT !.has_been_modified_since_last_buffered_ = TRUE]
        ELSE t

just_modified_toggles(t) ==
    IF has_data_in_buffer(t)
        THEN [t EXCEPT !.has_been_modified_since_last_buffered_ = ~@]
        ELSE t

just_modified(t) ==
    IF has_data_in_buffer(t)
        THEN [t EXCEPT !.has_been_modified_since_last_buffered_ = TRUE]
        ELSE t

just_buffered_data_keeps_flag(t) ==
    [t EXCEPT !.has_data_in_buffer_ = TRUE]

just_buffered_data(t) ==
    [t EXCEPT !.has_data_in_buffer_ = TRUE,
              !.has_been_modified_since_last_buffered_ = FALSE]

free_buffered_data_noop(t) == t

free_buffered_data(t) ==
    [t EXCEPT !.has_data_in_buffer_ = FALSE]

has_been_modified_unbuffered_true(t) ==
    IF t.has_data_in_buffer_
        THEN t.has_been_modified_since_last_buffered_
        ELSE TRUE

has_been_modified_raw_flag(t) ==
    t.has_been_modified_since_last_buffered_

has_been_modified_since_last_buffering(t) ==
    IF t.has_data_in_buffer_
        THEN t.has_been_modified_since_last_buffered_
        ELSE FALSE

\* (flag ? "true" : "false")
bool_text(flag) == IF flag THEN "true" ELSE "false"

\* BufferModificationTracker::to_string: it prints the two private flags,
\* not the values of the getters.
to_string(t) ==
    "BufferModificationTracker { " \o "has_data_in_buffer = "
        \o bool_text(t.has_data_in_buffer_) \o ", "
        \o "has_been_modified_since_last_buffered_ = "
        \o bool_text(t.has_been_modified_since_last_buffered_) \o " }"

-----------------------------------------------------------------------------
(* The stand-alone tracker and the calls a client makes on it.             *)

TrackerCallNames == {"just_modified", "just_buffered_data", "free_buffered_data"}

TrackerIdle == tracker = NewTracker /\ calls = <<>>

TrackerJustModified ==
    /\ Len(calls) < MaxCalls
    /\ tracker' = just_modified(tracker)
    /\ calls' = Append(calls, "just_modified")

TrackerJustBufferedData ==
    /\ Len(calls) < MaxCalls
    /\ tracker' = just_buffered_data(tracker)
    /\ calls' = Append(calls, "just_buffered_data")

TrackerFreeBufferedData ==
    /\ Len(calls) < MaxCalls
    /\ tracker' = free_buffered_data(tracker)
    /\ calls' = Append(calls, "free_buffered_data")

-----------------------------------------------------------------------------
(* glm::vec3 / glm::vec4 / glm::mat4 arithmetic used by the bake           *)
(* operations.  A vector is a tuple, a matrix a tuple of four rows.        *)

Vec3Zero == <<0, 0, 0>>
Vec3One == <<1, 1, 1>>

\* pos += translation
Vec3Add(a, b) == <<a[1] + b[1], a[2] + b[2], a[3] + b[3]>>

\* pos *= scale (component-wise)
Vec3Mul(a, b) == <<a[1] * b[1], a[2] * b[2], a[3] * b[3]>>

\* glm::vec4(pos, 1.0f)
Vec4FromVec3(p) == <<p[1], p[2], p[3], 1>>

\* glm::vec3(v): drops w
Vec3FromVec4(v) == <<v[1], v[2], v[3]>>

Dot4(r, v) == r[1] * v[1] + r[2] * v[2] + r[3] * v[3] + r[4] * v[4]

\* mat4 * vec4
MatVec(m, v) == <<Dot4(m[1], v), Dot4(m[2], v), Dot4(m[3], v), Dot4(m[4], v)>>

MatCol(m, j) == <<m[1][j], m[2][j], m[3][j], m[4][j]>>

\* mat4 * mat4
MatRowMul(r, b) ==
    <<Dot4(r, MatCol(b, 1)), Dot4(r, MatCol(b, 2)), Dot4(r, MatCol(b, 3)), Dot4(r, MatCol(b, 4))>>

MatMul(a, b) == <<MatRowMul(a[1], b), MatRowMul(a[2], b), MatRowMul(a[3], b), MatRowMul(a[4], b)>>

-----------------------------------------------------------------------------
(* Transform: the external transform type the mesh classes hold.  Its code *)
(* is not part of src/; it is modelled from the specification (section 4.2 *)
(* and section 6): independently resettable translation, rotation and      *)
(* scale, and a composite matrix.  Rotation is held as quarter turns about *)
(* the x, y and z axes so that the rotation matrix is integral.            *)

NewTransform == [translation |-> Vec3Zero, rotation |-> Vec3Zero, scale |-> Vec3One]

Cos4(k) == <<1, 0, -1, 0>>[(k % 4) + 1]
Sin4(k) == <<0, 1, 0, -1>>[(k % 4) + 1]

RotX(k) ==
    << <<1, 0, 0, 0>>, <<0, Cos4(k), -Sin4(k), 0>>, <<0, Sin4(k), Cos4(k), 0>>, <<0, 0, 0, 1>> >>
RotY(k) ==
    << <<Cos4(k), 0, Sin4(k), 0>>, <<0, 1, 0, 0>>, <<-Sin4(k), 0, Cos4(k), 0>>, <<0, 0, 0, 1>> >>
RotZ(k) ==
    << <<Cos4(k), -Sin4(k), 0, 0>>, <<Sin4(k), Cos4(k), 0, 0>>, <<0, 0, 1, 0>>, <<0, 0, 0, 1>> >>

TranslationMatrix(t) ==
    << <<1, 0, 0, t[1]>>, <<0, 1, 0, t[2]>>, <<0, 0, 1, t[3]>>, <<0, 0, 0, 1>> >>
ScaleMatrix(s) ==
    << <<s[1], 0, 0, 0>>, <<0, s[2], 0, 0>>, <<0, 0, s[3], 0>>, <<0, 0, 0, 1>> >>

get_translation(tf) == tf.translation
get_scale(tf) == tf.scale
get_rotation_transform_matrix(tf) ==
    MatMul(RotZ(tf.rotation[3]), MatMul(RotY(tf.rotation[2]), RotX(tf.rotation[1])))
get_transform_matrix(tf) ==
    MatMul(TranslationMatrix(tf.translation),
           MatMul(get_rotation_transform_matrix(tf), ScaleMatrix(tf.scale)))

reset_translation(tf) == [tf EXCEPT !.translation = Vec3Zero]
reset_rotation(tf) == [tf EXCEPT !.rotation = Vec3Zero]
reset_scale(tf) == [tf EXCEPT !.scale = Vec3One]
reset(tf) == NewTransform

-----------------------------------------------------------------------------
(* The mesh classes.  A mesh is a record of the class's data members.      *)

DefaultId == -1

\* IVPColor(indices, xyz_positions, rgb_colors, id, name), the raw-array
\* constructor; transform and buffer_modification_tracker are default-built.
IVPColor_raw(indices, xyz_positions, rgb_colors, id, name) ==
    [transform |-> NewTransform,
     id |-> id,
     indices |-> indices,
     xyz_positions |-> xyz_positions,
     rgb_colors |-> rgb_colors,
     name |-> name,
     buffer_modification_tracker |-> NewTracker]

copy_draw_data_from_keeps_colors(this, that, same_object) ==
    IF same_object
    THEN this
    ELSE [this EXCEPT !.indices = that.indices,
                      !.xyz_positions = that.xyz_positions,
                      !.buffer_modification_tracker =
                          just_modified(this.buffer_modification_tracker)]

\* IVPColor::copy_draw_data_from(const IVPColor &other); same_object is
\* `this == &other`.
copy_draw_data_from(this, that, same_object) ==
    IF same_object
    THEN this
    ELSE [this EXCEPT !.indices = that.indices,
                      !.xyz_positions = that.xyz_positions,
                      !.rgb_colors = that.rgb_colors,
                      !.buffer_modification_tracker =
                          just_modified(this.buffer_modification_tracker)]

-----------------------------------------------------------------------------
(* The bake operations, src/draw_info.hpp:47-91.                           *)

apply_translation_no_reset(m) ==
    LET translation == get_translation(m.transform)
        add(pos) == Vec3Add(pos, translation)
    IN  [m EXCEPT !.xyz_positions = [i \in 1..Len(m.xyz_positions) |-> add(m.xyz_positions[i])],
                  !.buffer_modification_tracker =
                      just_modified(m.buffer_modification_tracker)]

apply_translation_first_only(m) ==
    LET translation == get_translation(m.transform)
    IN  [m EXCEPT !.xyz_positions =
                      [i \in 1..Len(m.xyz_positions) |->
                          IF i = 1 THEN Vec3Add(m.xyz_positions[i], translation)
                                   ELSE m.xyz_positions[i]],
                  !.transform = reset_translation(m.transform),
                  !.buffer_modification_tracker =
                      just_modified(m.buffer_modification_tracker)]

apply_translation(m) ==
    LET translation == get_translation(m.transform)
        add(pos) == Vec3Add(pos, translation)
    IN  [m EXCEPT !.xyz_positions = [i \in 1..Len(m.xyz_positions) |-> add(m.xyz_positions[i])],
                  !.transform = reset_translation(m.transform),
                  !.buffer_modification_tracker =
                      just_modified(m.buffer_modification_tracker)]

apply_rotation_full_reset(m) ==
    LET rotation_mat == get_rotation_transform_matrix(m.transform)
        rot(pos) == Vec3FromVec4(MatVec(rotation_mat, Vec4FromVec3(pos)))
    IN  [m EXCEPT !.xyz_positions = [i \in 1..Len(m.xyz_positions) |-> rot(m.xyz_positions[i])],
                  !.transform = reset(m.transform),
                  !.buffer_modification_tracker =
                      just_modified(m.buffer_modification_tracker)]

apply_rotation(m) ==
    LET rotation_mat == get_rotation_transform_matrix(m.transform)
        rot(pos) == Vec3FromVec4(MatVec(rotation_mat, Vec4FromVec3(pos)))
    IN  [m EXCEPT !.xyz_positions = [i \in 1..Len(m.xyz_positions) |-> rot(m.xyz_positions[i])],
                  !.transform = reset_rotation(m.transform),
                  !.buffer_modification_tracker =
                      just_modified(m.buffer_modification_tracker)]

apply_scale_no_just_modified(m) ==
    LET scale == get_scale(m.transform)
        mul(pos) == Vec3Mul(pos, scale)
    IN  [m EXCEPT !.xyz_positions = [i \in 1..Len(m.xyz_positions) |-> mul(m.xyz_positions[i])],
                  !.transform = reset_scale(m.transform)]

apply_scale(m) ==
    LET scale == get_scale(m.transform)
        mul(pos) == Vec3Mul(pos, scale)
    IN  [m EXCEPT !.xyz_positions = [i \in 1..Len(m.xyz_positions) |-> mul(m.xyz_positions[i])],
                  !.transform = reset_scale(m.transform),
                  !.buffer_modification_tracker =
                      just_modified(m.buffer_modification_tracker)]

apply_transform(m) ==
    LET transform_mat == get_transform_matrix(m.transform)
        xf(pos) == Vec3FromVec4(MatVec(transform_mat, Vec4FromVec3(pos)))
    IN  [m EXCEPT !.xyz_positions = [i \in 1..Len(m.xyz_positions) |-> xf(m.xyz_positions[i])],
                  !.transform = reset(m.transform),
                  !.buffer_modification_tracker =
                      just_modified(m.buffer_modification_tracker)]

-----------------------------------------------------------------------------
(* A mesh, the client that assigns its pending transform and bakes it, and *)
(* the uploader that reports buffering and freeing to its tracker.         *)

Red == <<1, 0, 0>>
Blue == <<0, 0, 1>>

InitMeshes ==
    { IVPColor_raw(<<>>, <<>>, <<>>, DefaultId, ""),
      IVPColor_raw(<<0, 1, 0>>, << <<0, 0, 0>>, <<1, 0, 0>> >>, <<Red, Blue>>, DefaultId, "edge"),
      IVPColor_raw(<<0, 0, 0>>, << <<1, 2, 3>> >>, <<Red>>, 7, "") }

Translations == { <<2, 3, 4>>, <<-1, 0, 1>> }
Rotations == { <<1, 0, 0>>, <<0, 0, 1>> }
Scales == { <<2, 2, 2>>, <<1, -1, 3>> }

BakeOps == {"apply_translation", "apply_rotation", "apply_scale", "apply_transform"}

Push(h, op) == IF Len(h) < 2 THEN Append(h, op) ELSE <<h[2], op>>

MeshIdle ==
    /\ mesh = IVPColor_raw(<<>>, <<>>, <<>>, DefaultId, "")
    /\ hist = <<>>
    /\ nsets = 0
    /\ other = IVPColor_raw(<<>>, <<>>, <<>>, DefaultId, "")

\* The mesh copy_draw_data_from reads: resident on the device, with a pending
\* translation, an id and a name of its own.
OtherMesh ==
    [IVPColor_raw(<<0, 1, 1>>, << <<0, 0, 0>>, <<0, 1, 0>> >>, <<Blue, Red>>, 5, "other")
        EXCEPT !.transform.translation = <<-1, 0, 1>>,
               !.buffer_modification_tracker = just_buffered_data(NewTracker)]

MeshInit == mesh \in InitMeshes /\ hist = <<>> /\ nsets = 0 /\ other = OtherMesh

SetTranslation ==
    \E t \in Translations :
        /\ nsets < MaxSets
        /\ mesh' = [mesh EXCEPT !.transform.translation = t]
        /\ hist' = Push(hist, "set_translation")
        /\ nsets' = nsets + 1
        /\ UNCHANGED other

SetRotation ==
    \E r \in Rotations :
        /\ nsets < MaxSets
        /\ mesh' = [mesh EXCEPT !.transform.rotation = r]
        /\ hist' = Push(hist, "set_rotation")
        /\ nsets' = nsets + 1
        /\ UNCHANGED other

SetScale ==
    \E s \in Scales :
        /\ nsets < MaxSets
        /\ mesh' = [mesh EXCEPT !.transform.scale = s]
        /\ hist' = Push(hist, "set_scale")
        /\ nsets' = nsets + 1
        /\ UNCHANGED other

ApplyTranslation ==
    /\ mesh' = apply_translation(mesh)
    /\ hist' = Push(hist, "apply_translation")
    /\ UNCHANGED <<nsets, other>>

ApplyRotation ==
    /\ mesh' = apply_rotation(mesh)
    /\ hist' = Push(hist, "apply_rotation")
    /\ UNCHANGED <<nsets, other>>

ApplyScale ==
    /\ mesh' = apply_scale(mesh)
    /\ hist' = Push(hist, "apply_scale")
    /\ UNCHANGED <<nsets, other>>

ApplyTransform ==
    /\ mesh' = apply_transform(mesh)
    /\ hist' = Push(hist, "apply_transform")
    /\ UNCHANGED <<nsets, other>>

MeshJustBufferedData ==
    /\ mesh' = [mesh EXCEPT !.buffer_modification_tracker =
                                just_buffered_data(mesh.buffer_modification_tracker)]
    /\ hist' = Push(hist, "just_buffered_data")
    /\ UNCHANGED <<nsets, other>>

MeshFreeBufferedData ==
    /\ mesh' = [mesh EXCEPT !.buffer_modification_tracker =
                                free_buffered_data(mesh.buffer_modification_tracker)]
    /\ hist' = Push(hist, "free_buffered_data")
    /\ UNCHANGED <<nsets, other>>

\* mesh.buffer_modification_tracker.just_modified()
MeshJustModified ==
    /\ mesh' = [mesh EXCEPT !.buffer_modification_tracker =
                                just_modified(mesh.buffer_modification_tracker)]
    /\ hist' = Push(hist, "just_modified")
    /\ UNCHANGED <<nsets, other>>

\* mesh.copy_draw_data_from(other): other is taken by const reference.
CopyDrawDataFrom ==
    /\ mesh' = copy_draw_data_from(mesh, other, FALSE)
    /\ hist' = Push(hist, "copy_draw_data_from")
    /\ UNCHANGED <<nsets, other>>

\* mesh.copy_draw_data_from(mesh)
CopyDrawDataFromSelf ==
    /\ mesh' = copy_draw_data_from(mesh, mesh, TRUE)
    /\ hist' = Push(hist, "copy_draw_data_from_self")
    /\ UNCHANGED <<nsets, other>>

-----------------------------------------------------------------------------
(* VertexBoneData, src/draw_info.hpp:782-815 and src/draw_info.cpp:41-59.  *)
(* A weight is an integer standing for a float; 0 stands for 0.0f.         *)

NumSlots == 4

\* indices_of_bones_that_affect_this_vertex[4] = {0} and
\* weight_value_of_this_vertex_wrt_bone[4] = {0.0f}
NewVertexBoneData ==
    [indices_of_bones_that_affect_this_vertex |-> [i \in 1..NumSlots |-> 0],
     weight_value_of_this_vertex_wrt_bone |-> [i \in 1..NumSlots |-> 0]]

\* bool logging = false;
logging == FALSE

\* Whether the loop of add_bone_data finds no slot and falls through to the
\* logging code.
RECURSIVE no_free_slot_from(_, _)
no_free_slot_from(v, i) ==
    IF i > NumSlots THEN TRUE
    ELSE IF v.weight_value_of_this_vertex_wrt_bone[i] = 0 THEN FALSE
    ELSE no_free_slot_from(v, i + 1)

\* The for loop of add_bone_data from slot i on (slots are numbered from 1).
RECURSIVE add_bone_data_from(_, _, _, _)
add_bone_data_from(v, i, BoneID, Weight) ==
    IF i > NumSlots THEN v
    ELSE IF v.weight_value_of_this_vertex_wrt_bone[i] = 0
        THEN [v EXCEPT !.indices_of_bones_that_affect_this_vertex[i] = BoneID,
                       !.weight_value_of_this_vertex_wrt_bone[i] = Weight]
        ELSE add_bone_data_from(v, i + 1, BoneID, Weight)

add_bone_data_overwrites_last(v, BoneID, Weight) ==
    IF no_free_slot_from(v, 1)
        THEN [v EXCEPT !.indices_of_bones_that_affect_this_vertex[NumSlots] = BoneID,
                       !.weight_value_of_this_vertex_wrt_bone[NumSlots] = Weight]
        ELSE add_bone_data_from(v, 1, BoneID, Weight)

\* The first slot that holds a weight smaller than Weight, or the first free one.
RECURSIVE add_bone_data_by_weight_from(_, _, _, _)
add_bone_data_by_weight_from(v, i, BoneID, Weight) ==
    IF i > NumSlots THEN v
    ELSE IF v.weight_value_of_this_vertex_wrt_bone[i] < Weight
        THEN add_bone_data_by_weight_from(
                 [v EXCEPT !.indices_of_bones_that_affect_this_vertex[i] = BoneID,
                           !.weight_value_of_this_vertex_wrt_bone[i] = Weight],
                 i + 1,
                 v.indices_of_bones_that_affect_this_vertex[i],
                 v.weight_value_of_this_vertex_wrt_bone[i])
        ELSE add_bone_data_by_weight_from(v, i + 1, BoneID, Weight)

add_bone_data_sorted(v, BoneID, Weight) == add_bone_data_by_weight_from(v, 1, BoneID, Weight)

\* The last slot whose weight is 0.0 is written instead of the first.
RECURSIVE add_bone_data_down_from(_, _, _, _)
add_bone_data_down_from(v, i, BoneID, Weight) ==
    IF i < 1 THEN v
    ELSE IF v.weight_value_of_this_vertex_wrt_bone[i] = 0
        THEN [v EXCEPT !.indices_of_bones_that_affect_this_vertex[i] = BoneID,
                       !.weight_value_of_this_vertex_wrt_bone[i] = Weight]
        ELSE add_bone_data_down_from(v, i - 1, BoneID, Weight)

add_bone_data_last_free(v, BoneID, Weight) == add_bone_data_down_from(v, NumSlots, BoneID, Weight)

add_bone_data_ignores_zero_weight(v, BoneID, Weight) ==
    IF Weight = 0 THEN v ELSE add_bone_data_from(v, 1, BoneID, Weight)

add_bone_data(v, BoneID, Weight) == add_bone_data_from(v, 1, BoneID, Weight)

\* What a call of add_bone_data writes to std::cout.
add_bone_data_output(v, BoneID, Weight) ==
    IF no_free_slot_from(v, 1) /\ logging
        THEN <<"was about to add bone data, but we've already associated 4 weights, not adding">>
        ELSE <<>>

BoneIds == {0, 1, 2}
Weights == {0, 1, 2}

BoneIdle == vbd = NewVertexBoneData /\ adds = <<>> /\ cout = <<>>

AddBoneData ==
    \E b \in BoneIds, w \in Weights :
        /\ Len(adds) < MaxAdds
        /\ vbd' = add_bone_data(vbd, b, w)
        /\ cout' = cout \o add_bone_data_output(vbd, b, w)
        /\ adds' = Append(adds, <<b, w>>)

-----------------------------------------------------------------------------
(* Constructors of the mesh classes.                                       *)

MaxVerts == 3

\* IndexedVertexPositions(indices, xyz_positions, id, name)
IndexedVertexPositions_raw(indices, xyz_positions, id, name) ==
    [transform |-> NewTransform,
     id |-> id,
     name |-> name,
     indices |-> indices,
     xyz_positions |-> xyz_positions,
     buffer_modification_tracker |-> NewTracker]

\* std::vector<glm::vec3>(n, value)
Fill(n, value) == [i \in 1..n |-> value]

\* IVPColor(IndexedVertexPositions ivp, std::vector<glm::vec3> rgb_colors, id, name)
IVPColor_from_ivp(src, rgb_colors, id, name) ==
    [transform |-> NewTransform,
     id |-> id,
     indices |-> src.indices,
     xyz_positions |-> src.xyz_positions,
     rgb_colors |-> rgb_colors,
     name |-> name,
     buffer_modification_tracker |-> NewTracker]

IVPColor_uniform_sized_by_indices(src, color) ==
    IVPColor_from_ivp(src, Fill(Len(src.indices), color), src.id, src.name)

IVPColor_uniform_default_id(src, color) ==
    IVPColor_from_ivp(src, Fill(Len(src.xyz_positions), color), DefaultId, "")

\* IVPColor(IndexedVertexPositions ivp, glm::vec3 color)
IVPColor_uniform(src, color) ==
    IVPColor_from_ivp(src, Fill(Len(src.xyz_positions), color), src.id, src.name)

NoObject == [class |-> "none"]
NoCall == [op |-> "none"]

Points == { <<0, 0, 0>>, <<1, 2, 3>> }
Colors == { Red, Blue }

PositionLists == UNION { [1..n -> Points] : n \in 0..MaxVerts }

\* Index lists whose entries are valid offsets into n vertices.
IndexLists(n) == IF n = 0 THEN { <<>> } ELSE { <<0, n - 1, 0>>, <<0, 0, 0, n - 1, n - 1, 0>> }

SourceIvps ==
    { IndexedVertexPositions_raw(ix, ps, id, nm) :
        ix \in UNION { IndexLists(n) : n \in 0..MaxVerts }, ps \in PositionLists,
        id \in {DefaultId, 7}, nm \in {"", "mesh"} }

CtorIdle ==
    /\ ivp = IndexedVertexPositions_raw(<<>>, <<>>, DefaultId, "")
    /\ built = NoObject
    /\ ctor = NoCall
    /\ uid = 0
    /\ live = <<>>

CtorInit ==
    /\ ivp \in { s \in SourceIvps : s.indices \in IndexLists(Len(s.xyz_positions)) }
    /\ built = NoObject
    /\ ctor = NoCall
    /\ uid = 0
    /\ live = <<>>

BuildIVPColorUniform ==
    \E c \in Colors :
        /\ built' = [class |-> "IVPColor", obj |-> IVPColor_uniform(ivp, c)]
        /\ ctor' = [op |-> "IVPColor_uniform", color |-> c, src |-> ivp,
                    arg |-> [explicit |-> FALSE, id |-> DefaultId], uid |-> uid]
        /\ UNCHANGED <<ivp, uid, live>>

-----------------------------------------------------------------------------
(* More constructors of the mesh classes.  A texture coordinate is a pair  *)
(* of integers.                                                            *)

\* IVPTexturePacked(indices, xyz_positions, original_texture_coordinates,
\* packed_texture_coordinates, packed_texture_index,
\* packed_texture_bounding_box_index, texture, id, name)
IVPTexturePacked_raw(indices, xyz_positions, original_texture_coordinates, packed_texture_coordinates, packed_texture_index, packed_texture_bounding_box_index, texture, id, name) ==
    [transform |-> NewTransform,
     id |-> id,
     indices |-> indices,
     xyz_positions |-> xyz_positions,
     original_texture_coordinates |-> original_texture_coordinates,
     packed_texture_coordinates |-> packed_texture_coordinates,
     packed_texture_index |-> packed_texture_index,
     packed_texture_bounding_box_index |-> packed_texture_bounding_box_index,
     texture_path |-> texture,
     name |-> name,
     buffer_modification_tracker |-> NewTracker]

\* IVPTexturePacked(const IndexedVertexPositions &ivp, original_texture_coordinates,
\* packed_texture_coordinates, packed_texture_index,
\* packed_texture_bounding_box_index, texture, id, name)
IVPTexturePacked_from_ivp(src, original_texture_coordinates, packed_texture_coordinates, packed_texture_index, packed_texture_bounding_box_index, texture, id, name) ==
    [transform |-> NewTransform,
     id |-> id,
     indices |-> src.indices,
     xyz_positions |-> src.xyz_positions,
     original_texture_coordinates |-> original_texture_coordinates,
     packed_texture_coordinates |-> packed_texture_coordinates,
     packed_texture_index |-> packed_texture_index,
     packed_texture_bounding_box_index |-> packed_texture_bounding_box_index,
     texture_path |-> texture,
     name |-> name,
     buffer_modification_tracker |-> NewTracker]

\* IVPTextured(indices, xyz_positions, texture_coordinates, texture, id, name)
IVPTextured_raw(indices, xyz_positions, texture_coordinates, texture, id, name) ==
    [transform |-> NewTransform,
     id |-> id,
     indices |-> indices,
     xyz_positions |-> xyz_positions,
     texture_coordinates |-> texture_coordinates,
     texture_path |-> texture,
     name |-> name,
     buffer_modification_tracker |-> NewTracker]

\* IVPNormals(indices, xyz_positions, normals, id, name)
IVPNormals_raw(indices, xyz_positions, normals, id, name) ==
    [transform |-> NewTransform,
     id |-> id,
     indices |-> indices,
     xyz_positions |-> xyz_positions,
     normals |-> normals,
     name |-> name,
     buffer_modification_tracker |-> NewTracker]

\* IVPNColor(IVPNormals ivpn, std::vector<glm::vec3> rgb_colors): the
\* transform and the id are the source's, the name is left empty.
IVPNColor_from_ivpn(ivpn, rgb_colors) ==
    [transform |-> ivpn.transform,
     id |-> ivpn.id,
     indices |-> ivpn.indices,
     xyz_positions |-> ivpn.xyz_positions,
     normals |-> ivpn.normals,
     rgb_colors |-> rgb_colors,
     name |-> "",
     buffer_modification_tracker |-> NewTracker]

\* IVPNColor(IVPNormals ivpn, glm::vec3 color)
IVPNColor_uniform(ivpn, color) ==
    IVPNColor_from_ivpn(ivpn, Fill(Len(ivpn.xyz_positions), color))

\* IVPNColor(indices, xyz_positions, normals, colors, id, name): the member
\* initialiser list names no rgb_colors, which stays empty.
IVPNColor_raw(indices, xyz_positions, normals, colors, id, name) ==
    [transform |-> NewTransform,
     id |-> id,
     indices |-> indices,
     xyz_positions |-> xyz_positions,
     normals |-> normals,
     rgb_colors |-> <<>>,
     name |-> name,
     buffer_modification_tracker |-> NewTracker]

-----------------------------------------------------------------------------
(* GlobalUIDGenerator: the process-wide id generator some constructors use *)
(* for their default id.  Its code is not part of src/; it is modelled     *)
(* from the specification (section 3) as a monotonic counter: `uid` is the *)
(* next value it hands out.                                                *)

MaxUid == 2

GlobalUIDGenerator_get_id(u) == u
GlobalUIDGenerator_after_get_id(u) == u + 1

-----------------------------------------------------------------------------
(* Constructor calls on the source `ivp`.                                  *)

OtherIds == {9}

\* The id argument of a constructor call on source s: left out, the id of
\* the source, or another id.
IdArgs(s) ==
    {[explicit |-> FALSE, id |-> DefaultId]}
        \cup {[explicit |-> TRUE, id |-> i] : i \in {s.id} \cup OtherIds}

\* A constructor that takes no id argument.
NoIdArg == [explicit |-> FALSE, id |-> DefaultId]

Up == <<0, 0, 1>>

\* Per-vertex arrays for n vertices.
ColorLists(n) == { Fill(n, Red), [i \in 1..n |-> IF i % 2 = 1 THEN Blue ELSE Red] }
NormalList(n) == Fill(n, Up)
UVList(n) == [i \in 1..n |-> <<i, 0>>]

\* The IVPNormals a client builds over the arrays of `ivp`.
IvpnSource == IVPNormals_raw(ivp.indices, ivp.xyz_positions,
                             NormalList(Len(ivp.xyz_positions)), ivp.id, ivp.name)

BuildIVPColorPerVertex ==
    \E arg \in IdArgs(ivp), colors \in ColorLists(Len(ivp.xyz_positions)) :
        /\ built' = [class |-> "IVPColor", obj |-> IVPColor_from_ivp(ivp, colors, arg.id, "")]
        /\ ctor' = [op |-> "IVPColor_per_vertex", src |-> ivp, arg |-> arg, uid |-> uid]
        /\ UNCHANGED <<ivp, uid, live>>

BuildIVPNColorUniform ==
    \E c \in Colors :
        /\ built' = [class |-> "IVPNColor", obj |-> IVPNColor_uniform(IvpnSource, c)]
        /\ ctor' = [op |-> "IVPNColor_uniform", src |-> IvpnSource, arg |-> NoIdArg, uid |-> uid]
        /\ UNCHANGED <<ivp, uid, live>>

BuildIVPNColorPerVertex ==
    \E colors \in ColorLists(Len(ivp.xyz_positions)) :
        /\ built' = [class |-> "IVPNColor", obj |-> IVPNColor_from_ivpn(IvpnSource, colors)]
        /\ ctor' = [op |-> "IVPNColor_per_vertex", src |-> IvpnSource, arg |-> NoIdArg, uid |-> uid]
        /\ UNCHANGED <<ivp, uid, live>>

BuildIVPNColorRaw ==
    \E colors \in ColorLists(Len(ivp.xyz_positions)) :
        /\ built' = [class |-> "IVPNColor",
                     obj |-> IVPNColor_raw(ivp.indices, ivp.xyz_positions,
                                           NormalList(Len(ivp.xyz_positions)), colors,
                                           DefaultId, "")]
        /\ ctor' = [op |-> "IVPNColor_raw", src |-> ivp, arg |-> NoIdArg, uid |-> uid,
                    colors |-> colors]
        /\ UNCHANGED <<ivp, uid, live>>

\* With no id argument the default argument calls GlobalUIDGenerator::get_id().
BuildIVPTexturePackedFromIVP ==
    \E arg \in IdArgs(ivp) :
        LET uvs == UVList(Len(ivp.xyz_positions))
            id == IF arg.explicit THEN arg.id ELSE GlobalUIDGenerator_get_id(uid)
        IN  /\ arg.explicit \/ uid < MaxUid
            /\ built' = [class |-> "IVPTexturePacked",
                         obj |-> IVPTexturePacked_from_ivp(ivp, uvs, uvs, 0, 0, "atlas.png",
                                                           id, "")]
            /\ ctor' = [op |-> "IVPTexturePacked_from_ivp", src |-> ivp, arg |-> arg,
                        uid |-> uid]
            /\ uid' = IF arg.explicit THEN uid ELSE GlobalUIDGenerator_after_get_id(uid)
            /\ UNCHANGED <<ivp, live>>

-----------------------------------------------------------------------------
(* IDGenerator: the external id generator handed to regenerate_ids.  Its   *)
(* code is not part of src/; it is modelled from the specification         *)
(* (section 4.5 and section 8) as a monotonic counter that remembers what  *)
(* it issued.                                                              *)

NewIDGenerator == [next |-> 0, issued |-> {}]

\* The value get_id() returns, and the generator after the call.
get_id_value(g) == g.next
get_id_after(g) == [next |-> g.next + 1, issued |-> g.issued \cup {g.next}]

-----------------------------------------------------------------------------
(* TransformedIVPTPGroup, src/draw_info.hpp:706-721.                       *)

\* TransformedIVPTPGroup(std::vector<IVPTexturePacked> ivptp, int id)
TransformedIVPTPGroup_new(ivptp, id) ==
    [ivptps |-> ivptp, id |-> id, transform |-> NewTransform]

\* The loop of regenerate_ids from member i on: the members and the
\* generator after it.
RECURSIVE regenerate_member_ids_from(_, _, _)
regenerate_member_ids_from(ivptps, i, ivptp_id_generator) ==
    IF i > Len(ivptps) THEN [ivptps |-> ivptps, generator |-> ivptp_id_generator]
    ELSE regenerate_member_ids_from(
             [ivptps EXCEPT ![i].id = get_id_value(ivptp_id_generator)],
             i + 1,
             get_id_after(ivptp_id_generator))

regenerate_ids_one_id_for_all(g, tig_id_generator, ivptp_id_generator) ==
    [group |-> [g EXCEPT !.id = get_id_value(tig_id_generator),
                         !.ivptps = [i \in 1..Len(g.ivptps) |->
                                        [g.ivptps[i] EXCEPT
                                            !.id = get_id_value(ivptp_id_generator)]]],
     tig_id_generator |-> get_id_after(tig_id_generator),
     ivptp_id_generator |-> get_id_after(ivptp_id_generator)]

\* regenerate_ids(tig_id_generator, ivptp_id_generator): the group and the
\* two generators after the call.
regenerate_ids(g, tig_id_generator, ivptp_id_generator) ==
    LET members == regenerate_member_ids_from(g.ivptps, 1, ivptp_id_generator)
    IN  [group |-> [g EXCEPT !.id = get_id_value(tig_id_generator),
                             !.ivptps = members.ivptps],
         tig_id_generator |-> get_id_after(tig_id_generator),
         ivptp_id_generator |-> members.generator]

MaxMembers == 3
MaxIssued == 3

\* A member of the group: a one-triangle IVPTexturePacked with the given id.
Member(id) ==
    IVPTexturePacked_raw(<<0, 1, 2>>, << <<0, 0, 0>>, <<1, 0, 0>>, <<0, 1, 0>> >>,
                         << <<0, 0>>, <<1, 0>>, <<0, 1>> >>,
                         << <<0, 0>>, <<1, 0>>, <<0, 1>> >>,
                         0, 0, "atlas.png", id, "part")

MemberIds == {DefaultId, 0, 1}

InitGroups ==
    UNION { { TransformedIVPTPGroup_new([i \in 1..n |-> Member(ids[i])], gid) :
                ids \in [1..n -> MemberIds], gid \in {DefaultId, 0} } :
            n \in 0..MaxMembers }

GroupIdle ==
    /\ group = TransformedIVPTPGroup_new(<<>>, DefaultId)
    /\ gen1 = NewIDGenerator
    /\ gen2 = NewIDGenerator
    /\ regen = NoCall

GroupInit ==
    /\ group \in InitGroups
    /\ gen1 = NewIDGenerator
    /\ gen2 = NewIDGenerator
    /\ regen = NoCall

\* Another client draws an id from the generator of group ids.
TigGeneratorGetId ==
    /\ gen1.next < MaxIssued
    /\ gen1' = get_id_after(gen1)
    /\ UNCHANGED <<group, gen2, regen>>

\* Another client draws an id from the generator of member ids.
IvptpGeneratorGetId ==
    /\ gen2.next < MaxIssued
    /\ gen2' = get_id_after(gen2)
    /\ UNCHANGED <<group, gen1, regen>>

RegenerateIds ==
    /\ gen1.next < MaxIssued
    /\ gen2.next < MaxIssued
    /\ LET r == regenerate_ids(group, gen1, gen2)
       IN  /\ group' = r.group
           /\ gen1' = r.tig_id_generator
           /\ gen2' = r.ivptp_id_generator
    /\ regen' = [op |-> "regenerate_ids", tig_id_generator |-> gen1,
                 ivptp_id_generator |-> gen2, group |-> group]

-----------------------------------------------------------------------------
(* Several mesh objects side by side: construction, conversion, extraction *)
(* (src/draw_info.hpp, src/draw_info.cpp).                                 *)

MaxObjs == 2

\* The oldest MaxMutable live objects are the ones uploaded, edited and moved.
MaxMutable == 1

\* IndexedVertexPositions()
IndexedVertexPositions_default ==
    [transform |-> NewTransform,
     id |-> DefaultId,
     name |-> "",
     indices |-> <<>>,
     xyz_positions |-> <<>>,
     buffer_modification_tracker |-> NewTracker]

IndexedVertexPositions_from_ivplike_new_tracker(src) ==
    [transform |-> src.transform,
     id |-> src.id,
     name |-> src.name,
     indices |-> src.indices,
     xyz_positions |-> src.xyz_positions,
     buffer_modification_tracker |-> NewTracker]

\* template <IVPLike T> IndexedVertexPositions(const T &src)
IndexedVertexPositions_from_ivplike(src) ==
    [transform |-> src.transform,
     id |-> src.id,
     name |-> src.name,
     indices |-> src.indices,
     xyz_positions |-> src.xyz_positions,
     buffer_modification_tracker |-> src.buffer_modification_tracker]

IVPTextured_default_id_minus_one(u) == DefaultId

\* The default argument `int id = GlobalUIDGenerator::get_id()` of
\* IVPTextured, evaluated with the generator at u.
IVPTextured_default_id(u) == GlobalUIDGenerator_get_id(u)

extract_indexed_vertex_positions_keeps_id(src) ==
    IndexedVertexPositions_raw(src.indices, src.xyz_positions, src.id, "")

\* extract_indexed_vertex_positions(const IVPTextured &) and
\* extract_indexed_vertex_positions(const IVPTexturePacked &)
extract_indexed_vertex_positions(src) ==
    IndexedVertexPositions_raw(src.indices, src.xyz_positions, DefaultId, "")

\* The loop of extract_indexed_vertex_positions_vector from element i on:
\* result.emplace_back(indices, xyz_positions).
RECURSIVE extract_indexed_vertex_positions_vector_from(_, _, _)
extract_indexed_vertex_positions_vector_from(v, i, result) ==
    IF i > Len(v)
    THEN result
    ELSE extract_indexed_vertex_positions_vector_from(
             v, i + 1,
             Append(result,
                    IndexedVertexPositions_raw(v[i].indices, v[i].xyz_positions, DefaultId, "")))

\* extract_indexed_vertex_positions_vector(const std::vector<IVPTextured> &) and
\* extract_indexed_vertex_positions_vector(const std::vector<IVPTexturePacked> &)
extract_indexed_vertex_positions_vector(v) ==
    extract_indexed_vertex_positions_vector_from(v, 1, <<>>)

\* The raw arrays the objects are built from.
Triangle == [indices |-> <<0, 1, 0>>, xyz_positions |-> << <<0, 0, 0>>, <<1, 2, 3>> >>]

Geometries == { [indices |-> <<0, 0, 0>>, xyz_positions |-> << <<1, 2, 3>> >>], Triangle }

PendingTranslation == <<2, 3, 4>>

ExtractableClasses == {"IVPTextured", "IVPTexturePacked"}

\* The objects of class c among the live ones, oldest first.
RECURSIVE ObjectsOfClass(_, _)
ObjectsOfClass(l, c) ==
    IF l = <<>>
    THEN <<>>
    ELSE (IF Head(l).class = c THEN <<Head(l).obj>> ELSE <<>>) \o ObjectsOfClass(Tail(l), c)

\* A constructor call: the new object is returned and stays live.
Construct(class, obj, op, src) ==
    /\ Len(live) < MaxObjs
    /\ built' = [class |-> class, obj |-> obj]
    /\ live' = Append(live, [class |-> class, obj |-> obj, op |-> op])
    /\ ctor' = [op |-> op, src |-> src, uid |-> uid]

NewIndexedVertexPositionsDefault ==
    /\ Construct("IndexedVertexPositions", IndexedVertexPositions_default,
                 "IndexedVertexPositions_default", NoObject)
    /\ UNCHANGED <<ivp, uid>>

NewIndexedVertexPositionsRaw ==
    LET g == Triangle
    IN  /\ Construct("IndexedVertexPositions",
                     IndexedVertexPositions_raw(g.indices, g.xyz_positions, DefaultId, ""),
                     "IndexedVertexPositions_raw", NoObject)
        /\ UNCHANGED <<ivp, uid>>

NewIVPTextured ==
    \E g \in Geometries :
        /\ uid < MaxUid
        /\ Construct("IVPTextured",
                     IVPTextured_raw(g.indices, g.xyz_positions,
                                     UVList(Len(g.xyz_positions)), "wall.png",
                                     IVPTextured_default_id(uid), "wall"),
                     "IVPTextured_raw", NoObject)
        /\ uid' = GlobalUIDGenerator_after_get_id(uid)
        /\ UNCHANGED ivp

NewIVPTexturePackedRaw ==
    \E g \in Geometries :
        LET uvs == UVList(Len(g.xyz_positions))
        IN  /\ Construct("IVPTexturePacked",
                         IVPTexturePacked_raw(g.indices, g.xyz_positions, uvs, uvs, 0, 0,
                                              "atlas.png", DefaultId, "floor"),
                         "IVPTexturePacked_raw", NoObject)
            /\ UNCHANGED <<ivp, uid>>

NewIVPTexturePackedFromIVP ==
    \E i \in 1..Len(live) :
        LET src == live[i].obj
            uvs == UVList(Len(src.xyz_positions))
        IN  /\ live[i].class = "IndexedVertexPositions"
            /\ uid < MaxUid
            /\ Construct("IVPTexturePacked",
                         IVPTexturePacked_from_ivp(src, uvs, uvs, 0, 0, "atlas.png",
                                                   GlobalUIDGenerator_get_id(uid), ""),
                         "IVPTexturePacked_from_ivp", src)
            /\ uid' = GlobalUIDGenerator_after_get_id(uid)
            /\ UNCHANGED ivp

NewIVPColorFromIVP ==
    \E i \in 1..Len(live) :
        LET src == live[i].obj
        IN  /\ live[i].class = "IndexedVertexPositions"
            /\ Construct("IVPColor",
                         IVPColor_from_ivp(src, Fill(Len(src.xyz_positions), Red), DefaultId, ""),
                         "IVPColor_per_vertex", src)
            /\ UNCHANGED <<ivp, uid>>

ConvertToIndexedVertexPositions ==
    \E i \in 1..Len(live) :
        /\ Construct("IndexedVertexPositions", IndexedVertexPositions_from_ivplike(live[i].obj),
                     "IndexedVertexPositions_from_ivplike", live[i].obj)
        /\ UNCHANGED <<ivp, uid>>

\* A call on a live object that returns no object.
Mutate(i, obj) ==
    /\ i <= MaxMutable
    /\ live' = [live EXCEPT ![i].obj = obj]
    /\ built' = NoObject
    /\ ctor' = NoCall
    /\ UNCHANGED <<ivp, uid>>

LiveJustBufferedData ==
    \E i \in 1..Len(live) :
        Mutate(i, [live[i].obj EXCEPT !.buffer_modification_tracker = just_buffered_data(@)])

LiveJustModified ==
    \E i \in 1..Len(live) :
        Mutate(i, [live[i].obj EXCEPT !.buffer_modification_tracker = just_modified(@)])

LiveFreeBufferedData ==
    \E i \in 1..Len(live) :
        Mutate(i, [live[i].obj EXCEPT !.buffer_modification_tracker = free_buffered_data(@)])

LiveSetTranslation ==
    \E i \in 1..Len(live) :
        Mutate(i, [live[i].obj EXCEPT !.transform.translation = PendingTranslation])

ExtractIndexedVertexPositions ==
    \E i \in 1..Len(live) :
        /\ live[i].class \in ExtractableClasses
        /\ built' = [class |-> "IndexedVertexPositions",
                     obj |-> extract_indexed_vertex_positions(live[i].obj)]
        /\ ctor' = [op |-> "extract_indexed_vertex_positions", src |-> live[i].obj, uid |-> uid]
        /\ UNCHANGED <<ivp, uid, live>>

ExtractIndexedVertexPositionsVector ==
    \E c \in ExtractableClasses :
        LET v == ObjectsOfClass(live, c)
        IN  /\ built' = [class |-> "vector<IndexedVertexPositions>",
                         objs |-> extract_indexed_vertex_positions_vector(v)]
            /\ ctor' = [op |-> "extract_indexed_vertex_positions_vector", src |-> v,
                        uid |-> uid]
            /\ UNCHANGED <<ivp, uid, live>>

-----------------------------------------------------------------------------
(* The specifications: one per component, the other components idle.       *)

TrackerInit ==
    tracker = NewTracker /\ calls = <<>> /\ MeshIdle /\ BoneIdle /\ CtorIdle /\ GroupIdle

TrackerNext ==
    \/ TrackerJustModified /\ UNCHANGED <<meshVars, boneVars, ctorVars, groupVars>>
    \/ TrackerJustBufferedData /\ UNCHANGED <<meshVars, boneVars, ctorVars, groupVars>>
    \/ TrackerFreeBufferedData /\ UNCHANGED <<meshVars, boneVars, ctorVars, groupVars>>

TrackerSpec == TrackerInit /\ [][TrackerNext]_vars

Init == MeshInit /\ TrackerIdle /\ BoneIdle /\ CtorIdle /\ GroupIdle

Next ==
    \/ SetTranslation /\ UNCHANGED <<trackerVars, boneVars, ctorVars, groupVars>>
    \/ SetRotation /\ UNCHANGED <<trackerVars, boneVars, ctorVars, groupVars>>
    \/ SetScale /\ UNCHANGED <<trackerVars, boneVars, ctorVars, groupVars>>
    \/ ApplyTranslation /\ UNCHANGED <<trackerVars, boneVars, ctorVars, groupVars>>
    \/ ApplyRotation /\ UNCHANGED <<trackerVars, boneVars, ctorVars, groupVars>>
    \/ ApplyScale /\ UNCHANGED <<trackerVars, boneVars, ctorVars, groupVars>>
    \/ ApplyTransform /\ UNCHANGED <<trackerVars, boneVars, ctorVars, groupVars>>
    \/ MeshJustBufferedData /\ UNCHANGED <<trackerVars, boneVars, ctorVars, groupVars>>
    \/ MeshFreeBufferedData /\ UNCHANGED <<trackerVars, boneVars, ctorVars, groupVars>>

Spec == Init /\ [][Next]_vars

BoneInit == BoneIdle /\ TrackerIdle /\ MeshIdle /\ CtorIdle /\ GroupIdle

BoneNext == AddBoneData /\ UNCHANGED <<trackerVars, meshVars, ctorVars, groupVars>>

BoneSpec == BoneInit /\ [][BoneNext]_vars

CtorSpecInit == CtorInit /\ TrackerIdle /\ MeshIdle /\ BoneIdle /\ GroupIdle

CtorNext ==
    \/ BuildIVPColorUniform /\ UNCHANGED <<trackerVars, meshVars, boneVars, groupVars>>
    \/ BuildIVPColorPerVertex /\ UNCHANGED <<trackerVars, meshVars, boneVars, groupVars>>
    \/ BuildIVPNColorUniform /\ UNCHANGED <<trackerVars, meshVars, boneVars, groupVars>>
    \/ BuildIVPNColorPerVertex /\ UNCHANGED <<trackerVars, meshVars, boneVars, groupVars>>
    \/ BuildIVPNColorRaw /\ UNCHANGED <<trackerVars, meshVars, boneVars, groupVars>>
    \/ BuildIVPTexturePackedFromIVP /\ UNCHANGED <<trackerVars, meshVars, boneVars, groupVars>>

CtorSpec == CtorSpecInit /\ [][CtorNext]_vars

-----------------------------------------------------------------------------
ObjInit == CtorIdle /\ TrackerIdle /\ MeshIdle /\ BoneIdle /\ GroupIdle

ObjNext ==
    \/ NewIndexedVertexPositionsDefault /\ UNCHANGED <<trackerVars, meshVars, boneVars, groupVars>>
    \/ NewIndexedVertexPositionsRaw /\ UNCHANGED <<trackerVars, meshVars, boneVars, groupVars>>
    \/ NewIVPTextured /\ UNCHANGED <<trackerVars, meshVars, boneVars, groupVars>>
    \/ NewIVPTexturePackedRaw /\ UNCHANGED <<trackerVars, meshVars, boneVars, groupVars>>
    \/ NewIVPTexturePackedFromIVP /\ UNCHANGED <<trackerVars, meshVars, boneVars, groupVars>>
    \/ NewIVPColorFromIVP /\ UNCHANGED <<trackerVars, meshVars, boneVars, groupVars>>
    \/ ConvertToIndexedVertexPositions /\ UNCHANGED <<trackerVars, meshVars, boneVars, groupVars>>
    \/ LiveJustBufferedData /\ UNCHANGED <<trackerVars, meshVars, boneVars, groupVars>>
    \/ LiveJustModified /\ UNCHANGED <<trackerVars, meshVars, boneVars, groupVars>>
    \/ LiveFreeBufferedData /\ UNCHANGED <<trackerVars, meshVars, boneVars, groupVars>>
    \/ LiveSetTranslation /\ UNCHANGED <<trackerVars, meshVars, boneVars, groupVars>>
    \/ ExtractIndexedVertexPositions /\ UNCHANGED <<trackerVars, meshVars, boneVars, groupVars>>
    \/ ExtractIndexedVertexPositionsVector /\ UNCHANGED <<trackerVars, meshVars, boneVars, groupVars>>

ObjSpec == ObjInit /\ [][ObjNext]_vars

-----------------------------------------------------------------------------
\* The mesh under copy_draw_data_from, uploads and edits.
CopyNext ==
    \/ CopyDrawDataFrom /\ UNCHANGED <<trackerVars, boneVars, ctorVars, groupVars>>
    \/ CopyDrawDataFromSelf /\ UNCHANGED <<trackerVars, boneVars, ctorVars, groupVars>>
    \/ SetTranslation /\ UNCHANGED <<trackerVars, boneVars, ctorVars, groupVars>>
    \/ ApplyTranslation /\ UNCHANGED <<trackerVars, boneVars, ctorVars, groupVars>>
    \/ MeshJustBufferedData /\ UNCHANGED <<trackerVars, boneVars, ctorVars, groupVars>>
    \/ MeshFreeBufferedData /\ UNCHANGED <<trackerVars, boneVars, ctorVars, groupVars>>

CopySpec == Init /\ [][CopyNext]_vars

-----------------------------------------------------------------------------
\* The mesh under every call that reaches its tracker.
ModNext ==
    \/ MeshJustModified /\ UNCHANGED <<trackerVars, boneVars, ctorVars, groupVars>>
    \/ ApplyTranslation /\ UNCHANGED <<trackerVars, boneVars, ctorVars, groupVars>>
    \/ ApplyRotation /\ UNCHANGED <<trackerVars, boneVars, ctorVars, groupVars>>
    \/ ApplyScale /\ UNCHANGED <<trackerVars, boneVars, ctorVars, groupVars>>
    \/ ApplyTransform /\ UNCHANGED <<trackerVars, boneVars, ctorVars, groupVars>>
    \/ CopyDrawDataFrom /\ UNCHANGED <<trackerVars, boneVars, ctorVars, groupVars>>
    \/ CopyDrawDataFromSelf /\ UNCHANGED <<trackerVars, boneVars, ctorVars, groupVars>>
    \/ SetTranslation /\ UNCHANGED <<trackerVars, boneVars, ctorVars, groupVars>>
    \/ MeshJustBufferedData /\ UNCHANGED <<trackerVars, boneVars, ctorVars, groupVars>>
    \/ MeshFreeBufferedData /\ UNCHANGED <<trackerVars, boneVars, ctorVars, groupVars>>

ModSpec == Init /\ [][ModNext]_vars

-----------------------------------------------------------------------------
GroupSpecInit == GroupInit /\ TrackerIdle /\ MeshIdle /\ BoneIdle /\ CtorIdle

GroupNext ==
    \/ TigGeneratorGetId /\ UNCHANGED <<trackerVars, meshVars, boneVars, ctorVars>>
    \/ IvptpGeneratorGetId /\ UNCHANGED <<trackerVars, meshVars, boneVars, ctorVars>>
    \/ RegenerateIds /\ UNCHANGED <<trackerVars, meshVars, boneVars, ctorVars>>

GroupSpec == GroupSpecInit /\ [][GroupNext]_vars

-----------------------------------------------------------------------------
(* The three-state machine of the specification, section 4.1, against      *)
(* which the tracker is compared.                                          *)

AbsStep(state, call) ==
    CASE call = "just_modified" ->
            IF state = "NoBuffer" THEN "NoBuffer" ELSE "BufferedDirty"
      [] call = "just_buffered_data" -> "BufferedClean"
      [] call = "free_buffered_data" -> "NoBuffer"

RECURSIVE AbsRun(_)
AbsRun(cs) ==
    IF cs = <<>> THEN "NoBuffer"
    ELSE AbsStep(AbsRun(SubSeq(cs, 1, Len(cs) - 1)), cs[Len(cs)])

AbsIsResident(state) == state \in {"BufferedClean", "BufferedDirty"}
AbsNeedsReupload(state) == state = "BufferedDirty"

Resident == has_data_in_buffer(tracker)
Modified == has_been_modified_since_last_buffering(tracker)

-----------------------------------------------------------------------------
(* Claims about the tracker (TrackerSpec).                                 *)

\* C1: after every sequence of just_modified, just_buffered_data and
\* free_buffered_data calls on a fresh tracker, has_data_in_buffer and
\* has_been_modified_since_last_buffering return what is_resident and
\* needs_reupload of the NoBuffer/BufferedClean/BufferedDirty machine return
\* after the same sequence.
C1_TrackerRefinesThreeStateMachine ==
    /\ Resident = AbsIsResident(AbsRun(calls))
    /\ Modified = AbsNeedsReupload(AbsRun(calls))

\* C1 witness: a dirty tracker was freed (the stale private flag is still
\* set) and just_modified was called on it afterwards.
C1_Witness ==
    /\ EndsWith(calls, <<"just_buffered_data", "just_modified", "free_buffered_data",
                         "just_modified">>)
    /\ tracker.has_been_modified_since_last_buffered_
    /\ AbsRun(calls) = "NoBuffer"

\* C2: after n >= 0 just_modified calls and no other call on a fresh tracker,
\* has_data_in_buffer and has_been_modified_since_last_buffering are false.
C2_NeverUploadedNeverDirty ==
    (\A i \in 1..Len(calls) : calls[i] = "just_modified") => ~Resident /\ ~Modified

\* C2 witness: three just_modified calls and nothing else.
C2_Witness ==
    /\ calls = <<"just_modified", "just_modified", "just_modified">>
    /\ ~Resident
    /\ ~Modified

\* C3: whatever was called before, just_buffered_data leaves the tracker
\* resident and not modified, a just_modified directly after it leaves it
\* modified, and a further just_buffered_data leaves it not modified again.
C3_BufferModifyBuffer ==
    /\ EndsWith(calls, <<"just_buffered_data">>) => Resident /\ ~Modified
    /\ EndsWith(calls, <<"just_buffered_data", "just_modified">>) => Resident /\ Modified
    /\ EndsWith(calls, <<"just_buffered_data", "just_modified", "just_buffered_data">>)
           => Resident /\ ~Modified

\* C3 witness: the three calls were made on a tracker that had been dirtied
\* and freed before.
C3_Witness ==
    /\ calls = <<"just_buffered_data", "just_modified", "free_buffered_data",
                 "just_buffered_data", "just_modified", "just_buffered_data">>
    /\ Resident
    /\ ~Modified

\* C4: whatever was called before, free_buffered_data leaves the tracker not
\* resident and not modified, a just_modified after it leaves both false, and
\* a just_buffered_data after it leaves the tracker resident and not modified.
C4_FreeYieldsNoBuffer ==
    /\ EndsWith(calls, <<"free_buffered_data">>) => ~Resident /\ ~Modified
    /\ EndsWith(calls, <<"free_buffered_data", "just_modified">>) => ~Resident /\ ~Modified
    /\ EndsWith(calls, <<"free_buffered_data", "just_buffered_data">>) => Resident /\ ~Modified

\* C4 witness: a dirty tracker was freed and buffered again.
C4_Witness ==
    /\ EndsWith(calls, <<"just_buffered_data", "just_modified", "free_buffered_data",
                         "just_buffered_data">>)
    /\ Resident
    /\ ~Modified

-----------------------------------------------------------------------------
(* Claims about the bake operations (Spec).                                *)

LastOp(h) == IF h = <<>> THEN "none" ELSE h[Len(h)]

MeshResident == has_data_in_buffer(mesh.buffer_modification_tracker)
MeshModified == has_been_modified_since_last_buffering(mesh.buffer_modification_tracker)

\* C5: apply_translation leaves as many positions as before, position i equal
\* to the old position i plus the pending translation, and the pending
\* translation zero.
C5_TranslationBake ==
    [][LastOp(hist') = "apply_translation" =>
          /\ Len(mesh'.xyz_positions) = Len(mesh.xyz_positions)
          /\ \A i \in 1..Len(mesh.xyz_positions) :
                 mesh'.xyz_positions[i] =
                     Vec3Add(mesh.xyz_positions[i], mesh.transform.translation)
          /\ mesh'.transform.translation = Vec3Zero]_vars

\* C5 witness: positions [(0,0,0),(1,0,0)] with pending translation (2,3,4)
\* were baked into [(2,3,4),(3,3,4)].
C5_Witness ==
    /\ hist = <<"set_translation", "apply_translation">>
    /\ nsets = 1
    /\ mesh.xyz_positions = << <<2, 3, 4>>, <<3, 3, 4>> >>
    /\ mesh.transform.translation = Vec3Zero

\* C6: a bake operation invoked directly after the same bake operation, with
\* no change of the pending transform in between, leaves every position as
\* the first invocation left it.
C6_SecondBakeIsNoOp ==
    [][(LastOp(hist) \in BakeOps /\ LastOp(hist') = LastOp(hist)) =>
          mesh'.xyz_positions = mesh.xyz_positions]_vars

\* C6 witness: apply_transform ran twice in a row on the two-vertex mesh with
\* pending translation (2,3,4) and scale (2,2,2).
C6_Witness ==
    /\ hist = <<"apply_transform", "apply_transform">>
    /\ nsets = 2
    /\ mesh.xyz_positions = << <<2, 3, 4>>, <<4, 3, 4>> >>

\* C7: every bake operation calls just_modified: on a resident mesh
\* has_been_modified_since_last_buffering is true afterwards, and on a mesh
\* with nothing in the buffer the tracker still reports nothing in the buffer
\* and no modification.
C7_BakeCallsJustModified ==
    [][LastOp(hist') \in BakeOps =>
          /\ MeshResident => (MeshResident' /\ MeshModified')
          /\ ~MeshResident => (~MeshResident' /\ ~MeshModified')]_vars

\* C7 witness: a bake of the identity (no transform was ever assigned) right
\* after an upload left the mesh modified.
C7_Witness ==
    /\ hist = <<"just_buffered_data", "apply_scale">>
    /\ nsets = 0
    /\ mesh.xyz_positions = << <<0, 0, 0>>, <<1, 0, 0>> >>
    /\ MeshResident
    /\ MeshModified

-----------------------------------------------------------------------------
(* Claims about VertexBoneData (BoneSpec).                                 *)

Slot(v, i) ==
    <<v.indices_of_bones_that_affect_this_vertex[i], v.weight_value_of_this_vertex_wrt_bone[i]>>

AllSlotsNonzero(v) ==
    \A i \in 1..NumSlots : v.weight_value_of_this_vertex_wrt_bone[i] # 0

\* C8: after k <= 4 add_bone_data calls with nonzero weights on a fresh
\* VertexBoneData, slot i holds the arguments of call i for every i <= k, and
\* the remaining slots hold (0, 0.0).
C8_SlotsFilledInCallOrder ==
    (Len(adds) <= NumSlots /\ \A i \in 1..Len(adds) : adds[i][2] # 0) =>
        /\ \A i \in 1..Len(adds) : Slot(vbd, i) = adds[i]
        /\ \A i \in (Len(adds) + 1)..NumSlots : Slot(vbd, i) = <<0, 0>>

\* C8 witness: four calls with a repeated bone id and a heavier weight after
\* a lighter one.
C8_Witness ==
    /\ adds = << <<1, 1>>, <<1, 2>>, <<0, 2>>, <<2, 1>> >>
    /\ Slot(vbd, 2) = <<1, 2>>
    /\ Slot(vbd, 4) = <<2, 1>>

\* C9: add_bone_data on a VertexBoneData whose 4 slots all hold a nonzero
\* weight changes no slot and writes nothing.
C9_FullRecordDropsCall ==
    [][AllSlotsNonzero(vbd) => (vbd' = vbd /\ cout' = cout)]_vars

\* C9 witness: a fifth call was made after four calls with nonzero weights.
C9_Witness ==
    /\ Len(adds) = NumSlots + 1
    /\ \A i \in 1..NumSlots : adds[i][2] # 0 /\ Slot(vbd, i) = adds[i]
    /\ adds[NumSlots + 1] = <<2, 2>>
    /\ cout = <<>>

-----------------------------------------------------------------------------
(* Claims about the constructors (CtorSpec).                               *)

\* C10: IVPColor(ivp, color) has one color entry per vertex of ivp, each
\* equal to color, and ivp's indices and xyz_positions.
C10_UniformColorWidening ==
    ctor.op = "IVPColor_uniform" =>
        /\ built.class = "IVPColor"
        /\ Len(built.obj.rgb_colors) = Len(ivp.xyz_positions)
        /\ \A i \in 1..Len(built.obj.rgb_colors) : built.obj.rgb_colors[i] = ctor.color
        /\ built.obj.indices = ivp.indices
        /\ built.obj.xyz_positions = ivp.xyz_positions

\* C10 witness: a source of 3 vertices and 6 indices was widened with Blue.
C10_Witness ==
    /\ ctor.op = "IVPColor_uniform"
    /\ ctor.color = Blue
    /\ Len(ivp.xyz_positions) = 3
    /\ Len(ivp.indices) = 6
    /\ built.obj.rgb_colors = <<Blue, Blue, Blue>>

-----------------------------------------------------------------------------
(* Claims about TransformedIVPTPGroup (GroupSpec).                         *)

\* The i-th value generator g issues from now on.
RECURSIVE NthNextId(_, _)
NthNextId(g, i) == IF i = 1 THEN get_id_value(g) ELSE NthNextId(get_id_after(g), i - 1)

\* C11: after regenerate_ids(g1, g2) on a group of n members the group's id
\* is the next value g1 issued, member i holds the i-th next value g2 issued,
\* the member ids are pairwise distinct, none was issued by g2 before the
\* call, and the group id was not issued by g1 before the call.
C11_RegenerateIds ==
    regen.op = "regenerate_ids" =>
        /\ Len(group.ivptps) = Len(regen.group.ivptps)
        /\ group.id = NthNextId(regen.tig_id_generator, 1)
        /\ group.id \notin regen.tig_id_generator.issued
        /\ \A i \in 1..Len(group.ivptps) :
               /\ group.ivptps[i].id = NthNextId(regen.ivptp_id_generator, i)
               /\ group.ivptps[i].id \notin regen.ivptp_id_generator.issued
        /\ \A i, j \in 1..Len(group.ivptps) :
               i # j => group.ivptps[i].id # group.ivptps[j].id

\* C11 witness: a group of three members whose ids 0, 1, 0 collided with each
\* other and with the ids 0 and 1 the member generator had issued got the ids
\* 2, 3, 4, and its own id from a generator that had issued 0.
C11_Witness ==
    /\ regen.op = "regenerate_ids"
    /\ regen.ivptp_id_generator.issued = {0, 1}
    /\ regen.tig_id_generator.issued = {0}
    /\ regen.group.id = 0
    /\ Len(regen.group.ivptps) = 3
    /\ regen.group.ivptps[1].id = 0
    /\ regen.group.ivptps[2].id = 1
    /\ regen.group.ivptps[3].id = 0
    /\ group.id = 1
    /\ group.ivptps[1].id = 2
    /\ group.ivptps[2].id = 3
    /\ group.ivptps[3].id = 4

-----------------------------------------------------------------------------
(* Claims about the constructors, continued (CtorSpec).                    *)

\* Whether every attribute array of the built object is as long as its
\* xyz_positions.
AttributeLengthsMatch(b) ==
    LET n == Len(b.obj.xyz_positions)
    IN  CASE b.class = "IVPColor" -> Len(b.obj.rgb_colors) = n
          [] b.class = "IVPNColor" -> Len(b.obj.normals) = n /\ Len(b.obj.rgb_colors) = n
          [] b.class = "IVPTexturePacked" ->
                 /\ Len(b.obj.original_texture_coordinates) = n
                 /\ Len(b.obj.packed_texture_coordinates) = n
          [] OTHER -> TRUE

\* C12 (as claimed): a variant built from parallel arrays that all have the
\* length of the positions array, or widened with a per-vertex array of that
\* length, has every attribute array as long as xyz_positions; this includes
\* IVPNColor built from raw indices, positions, normals and colors.
C12_AttributeArraysMatchPositions ==
    built.class # "none" => AttributeLengthsMatch(built)

WideningOps ==
    {"IVPColor_uniform", "IVPColor_per_vertex", "IVPNColor_uniform", "IVPNColor_per_vertex",
     "IVPTexturePacked_from_ivp"}

\* C14 (as claimed): a widened variant built with no id argument has an id
\* newly issued by the generator and different from the source's, and a
\* widened variant carries the source's id only when the caller passed it.
C14_WideningFreshIdByDefault ==
    ctor.op \in WideningOps =>
        /\ ~ctor.arg.explicit =>
               (built.obj.id = GlobalUIDGenerator_get_id(ctor.uid) /\ built.obj.id # ctor.src.id)
        /\ built.obj.id = ctor.src.id => (ctor.arg.explicit /\ ctor.arg.id = ctor.src.id)

\* C14 (amended): IVPTexturePacked built from an IndexedVertexPositions with
\* no id argument takes the next id of GlobalUIDGenerator; IVPColor with a
\* uniform color carries the source's id and name and both IVPNColor
\* widenings carry the source's id, with no id argument at all; IVPColor with
\* per-vertex colors and no id argument has id -1; an id argument is stored
\* as given.
C14_WideningIds ==
    /\ ctor.op = "IVPTexturePacked_from_ivp" =>
           /\ ~ctor.arg.explicit =>
                  /\ built.obj.id = GlobalUIDGenerator_get_id(ctor.uid)
                  /\ uid = GlobalUIDGenerator_after_get_id(ctor.uid)
           /\ ctor.arg.explicit => (built.obj.id = ctor.arg.id /\ uid = ctor.uid)
    /\ ctor.op = "IVPColor_uniform" =>
           built.obj.id = ctor.src.id /\ built.obj.name = ctor.src.name /\ uid = ctor.uid
    /\ ctor.op \in {"IVPNColor_uniform", "IVPNColor_per_vertex"} =>
           built.obj.id = ctor.src.id /\ uid = ctor.uid
    /\ ctor.op = "IVPColor_per_vertex" =>
           /\ ~ctor.arg.explicit => built.obj.id = DefaultId
           /\ ctor.arg.explicit => built.obj.id = ctor.arg.id
           /\ uid = ctor.uid

\* C14 witness: IVPColor(ivp, color) on a source with id 7 built a mesh with
\* id 7 although no id was passed.
C14_Witness ==
    /\ ctor.op = "IVPColor_uniform"
    /\ ~ctor.arg.explicit
    /\ ctor.src.id = 7
    /\ Len(ctor.src.xyz_positions) = 2
    /\ built.obj.id = 7

-----------------------------------------------------------------------------
(* Claims about several objects side by side (ObjSpec).                    *)

NoBuffer(t) == ~has_data_in_buffer(t) /\ ~has_been_modified_since_last_buffering(t)

\* r is a positions-only mesh with the indices and positions of src and
\* nothing else of it.
ExtractedFrom(r, src) ==
    /\ DOMAIN r = DOMAIN IndexedVertexPositions_default
    /\ r.indices = src.indices
    /\ r.xyz_positions = src.xyz_positions
    /\ NoBuffer(r.buffer_modification_tracker)
    /\ r.transform = NewTransform
    /\ r.id = DefaultId
    /\ r.name = ""

\* C13: extract_indexed_vertex_positions on an IVPTextured or
\* IVPTexturePacked, whatever its tracker state and pending transform,
\* returns an IndexedVertexPositions with the source's indices and positions,
\* tracker NoBuffer and nothing else of the source; the vector form returns
\* one such result per element, in input order, with the same count.
C13_Extract ==
    /\ ctor.op = "extract_indexed_vertex_positions" =>
           /\ built.class = "IndexedVertexPositions"
           /\ ExtractedFrom(built.obj, ctor.src)
    /\ ctor.op = "extract_indexed_vertex_positions_vector" =>
           /\ Len(built.objs) = Len(ctor.src)
           /\ \A i \in 1..Len(ctor.src) : ExtractedFrom(built.objs[i], ctor.src[i])

\* C13 witness: a vector of two meshes with different positions, the first
\* one dirty on the device and with a pending translation, was extracted.
C13_Witness ==
    /\ ctor.op = "extract_indexed_vertex_positions_vector"
    /\ Len(ctor.src) = 2
    /\ ctor.src[1].xyz_positions # ctor.src[2].xyz_positions
    /\ has_been_modified_since_last_buffering(ctor.src[1].buffer_modification_tracker)
    /\ ctor.src[1].transform.translation = PendingTranslation
    /\ ctor.src[1].id # DefaultId
    /\ Len(built.objs) = 2

GeneratedIdOps == {"IVPTextured_raw", "IVPTexturePacked_from_ivp"}

\* The constructors whose default id is -1.
MinusOneIdOps ==
    {"IndexedVertexPositions_default", "IndexedVertexPositions_raw", "IVPTexturePacked_raw",
     "IVPColor_per_vertex"}

ConstructorOps == GeneratedIdOps \cup MinusOneIdOps \cup {"IndexedVertexPositions_from_ivplike"}

\* C16 (as claimed): every newly constructed mesh object has its tracker in
\* NoBuffer, whichever constructor built it.
C16_NewObjectNoBuffer ==
    ctor.op \in ConstructorOps => NoBuffer(built.obj.buffer_modification_tracker)

\* C16 (amended): an object built by the default, raw-array or widening
\* constructors has its tracker in NoBuffer; one built by the converting
\* constructor IndexedVertexPositions(const T &src) has a copy of the
\* tracker of src, resident or dirty included.
C16_NewObjectTracker ==
    /\ ctor.op \in ConstructorOps \ {"IndexedVertexPositions_from_ivplike"} =>
           /\ NoBuffer(built.obj.buffer_modification_tracker)
           /\ built.obj.buffer_modification_tracker = NewTracker
    /\ ctor.op = "IndexedVertexPositions_from_ivplike" =>
           built.obj.buffer_modification_tracker = ctor.src.buffer_modification_tracker

\* C16 witness: the converting constructor copied a source that is dirty on
\* the device, and the new object is dirty too.
C16_Witness ==
    /\ ctor.op = "IndexedVertexPositions_from_ivplike"
    /\ has_data_in_buffer(ctor.src.buffer_modification_tracker)
    /\ has_been_modified_since_last_buffering(ctor.src.buffer_modification_tracker)
    /\ has_been_modified_since_last_buffering(built.obj.buffer_modification_tracker)

-----------------------------------------------------------------------------
(* More claims about the bake operations (Spec).                           *)

\* The fields of a mesh that a bake operation may change.
BakedFields == {"xyz_positions", "transform", "buffer_modification_tracker"}

\* C17: a component bake resets only its own component of the pending
\* transform (apply_translation leaves rotation and scale, apply_rotation
\* leaves translation and scale, apply_scale leaves translation and
\* rotation), and every bake operation, apply_transform included, leaves
\* indices, the number of positions, the other attribute arrays, id and
\* name unchanged.
C17_BakeFrame ==
    [][/\ LastOp(hist') = "apply_translation" =>
              /\ mesh'.transform.rotation = mesh.transform.rotation
              /\ mesh'.transform.scale = mesh.transform.scale
       /\ LastOp(hist') = "apply_rotation" =>
              /\ mesh'.transform.translation = mesh.transform.translation
              /\ mesh'.transform.scale = mesh.transform.scale
       /\ LastOp(hist') = "apply_scale" =>
              /\ mesh'.transform.translation = mesh.transform.translation
              /\ mesh'.transform.rotation = mesh.transform.rotation
       /\ LastOp(hist') \in BakeOps =>
              /\ DOMAIN mesh' = DOMAIN mesh
              /\ \A f \in DOMAIN mesh \ BakedFields : mesh'[f] = mesh[f]
              /\ Len(mesh'.xyz_positions) = Len(mesh.xyz_positions)
              /\ DOMAIN mesh'.transform = DOMAIN mesh.transform]_vars

\* C17 witness: apply_rotation ran on the two-vertex mesh while a scale was
\* pending; the scale is still pending and the colors, id and name are as
\* built.
C17_Witness ==
    /\ hist = <<"set_scale", "apply_rotation">>
    /\ nsets = 2
    /\ mesh.transform.scale = <<2, 2, 2>>
    /\ mesh.transform.rotation = Vec3Zero
    /\ mesh.rgb_colors = <<Red, Blue>>
    /\ mesh.name = "edge"
    /\ Len(mesh.xyz_positions) = 2

-----------------------------------------------------------------------------
(* Claims about copy_draw_data_from (CopySpec).                            *)

\* C20: copy_draw_data_from(other), other a different object, replaces the
\* indices, xyz_positions and rgb_colors of this mesh with those of other,
\* leaves its id, name and pending transform and leaves other unchanged, and
\* calls just_modified: a resident mesh is modified afterwards, and a mesh
\* with no data in the buffer still reports NoBuffer.
C20_CopyDrawDataFrom ==
    [][LastOp(hist') = "copy_draw_data_from" =>
          /\ mesh'.indices = other.indices
          /\ mesh'.xyz_positions = other.xyz_positions
          /\ mesh'.rgb_colors = other.rgb_colors
          /\ mesh'.id = mesh.id
          /\ mesh'.name = mesh.name
          /\ mesh'.transform = mesh.transform
          /\ other' = other
          /\ MeshResident => (MeshResident' /\ MeshModified')
          /\ ~MeshResident => (~MeshResident' /\ ~MeshModified')]_vars

\* C20 witness: the resident mesh with id 7 and a pending translation copied
\* the draw data of the other mesh and is modified, its id and translation
\* kept.
C20_Witness ==
    /\ hist = <<"just_buffered_data", "copy_draw_data_from">>
    /\ nsets = 1
    /\ mesh.id = 7
    /\ mesh.id # other.id
    /\ mesh.transform.translation = <<2, 3, 4>>
    /\ mesh.transform # other.transform
    /\ mesh.xyz_positions = other.xyz_positions
    /\ mesh.rgb_colors = <<Blue, Red>>
    /\ MeshResident
    /\ MeshModified

-----------------------------------------------------------------------------
(* More claims about VertexBoneData (BoneSpec).                            *)

\* C18 (as claimed): whatever add_bone_data calls were made on a fresh
\* VertexBoneData, zero weights included, every slot whose weight is 0.0
\* holds bone id 0.
C18_UnusedSlotsHoldZero ==
    \A i \in 1..NumSlots :
        vbd.weight_value_of_this_vertex_wrt_bone[i] = 0 => Slot(vbd, i) = <<0, 0>>

\* The first slot whose weight is 0.0 (there is one).
FirstZeroSlot(v) ==
    CHOOSE i \in 1..NumSlots :
        /\ v.weight_value_of_this_vertex_wrt_bone[i] = 0
        /\ \A k \in 1..(i - 1) : v.weight_value_of_this_vertex_wrt_bone[k] # 0

UsedSlots(v) == {i \in 1..NumSlots : v.weight_value_of_this_vertex_wrt_bone[i] # 0}

-----------------------------------------------------------------------------
(* More claims about the tracker (TrackerSpec).                            *)

\* What to_string prints for the flag pair (d, m).
TrackerText(d, m) ==
    "BufferModificationTracker { has_data_in_buffer = " \o bool_text(d)
        \o ", has_been_modified_since_last_buffered_ = " \o bool_text(m) \o " }"

\* C21 (as claimed): over every sequence of just_modified, just_buffered_data
\* and free_buffered_data the pair of private flags, as to_string prints it,
\* is (false,false), (true,false) or (true,true), never (false,true).
C21_ThreeFlagPairs ==
    /\ to_string(tracker) \in
           {TrackerText(FALSE, FALSE), TrackerText(TRUE, FALSE), TrackerText(TRUE, TRUE)}
    /\ ~(~tracker.has_data_in_buffer_ /\ tracker.has_been_modified_since_last_buffered_)

-----------------------------------------------------------------------------
(* Claims about the tracker of a mesh under every call that reaches it     *)
(* (ModSpec).                                                              *)

\* The operations that call just_modified on the tracker of the mesh.
ModifyingOps == BakeOps \cup {"just_modified", "copy_draw_data_from"}

\* C22: a just_modified call (direct, by a bake or by copy_draw_data_from)
\* on a resident mesh leaves has_been_modified_since_last_buffering true; it
\* stays true across further calls and turns false only by
\* just_buffered_data or free_buffered_data; and
\* has_been_modified_since_last_buffering is true only while
\* has_data_in_buffer is.
C22_NoModificationLost ==
    /\ [](MeshModified => MeshResident)
    /\ [][/\ (MeshResident /\ LastOp(hist') \in ModifyingOps) => (MeshResident' /\ MeshModified')
          /\ (MeshModified /\ ~MeshModified') =>
                 LastOp(hist') \in {"just_buffered_data", "free_buffered_data"}]_vars

\* C22 witness: a resident mesh was modified by copy_draw_data_from and then
\* by a direct just_modified, and is still modified.
C22_Witness ==
    /\ hist = <<"copy_draw_data_from", "just_modified">>
    /\ mesh.xyz_positions = other.xyz_positions
    /\ MeshResident
    /\ MeshModified

-----------------------------------------------------------------------------
(* The shape of the slots of a VertexBoneData (BoneSpec).                  *)

\* C23: whatever add_bone_data calls were made on a fresh VertexBoneData,
\* zero weights included, no slot with a nonzero weight follows a slot with
\* weight 0.0, and a slot that holds a nonzero weight keeps its bone id and
\* weight under every later call.
C23_NonzeroPrefixIsStable ==
    /\ [](\A i, k \in 1..NumSlots :
              (i < k /\ vbd.weight_value_of_this_vertex_wrt_bone[i] = 0)
                  => vbd.weight_value_of_this_vertex_wrt_bone[k] = 0)
    /\ [][\A i \in UsedSlots(vbd) : Slot(vbd', i) = Slot(vbd, i)]_vars

\* C23 witness: a zero-weight call came first and one came between two
\* calls with nonzero weights; slots 1 and 2 hold the nonzero calls in order.
C23_Witness ==
    /\ adds = << <<2, 0>>, <<1, 1>>, <<0, 0>>, <<2, 2>>, <<1, 0>> >>
    /\ Slot(vbd, 1) = <<1, 1>>
    /\ Slot(vbd, 2) = <<2, 2>>
    /\ Slot(vbd, 3) = <<1, 0>>
    /\ Slot(vbd, 4) = <<0, 0>>

=============================================================================
